---- MODULE Spec2Model ----
(***************************************************************************)
(* Model of csv_to_github_project.py: a sequential importer that resolves  *)
(* a Project (v2) board, then for every CSV row looks up users and labels, *)
(* creates an issue (or a draft issue), links it to the board and sets the *)
(* board fields named by the extra columns.                                *)
(*                                                                         *)
(* Text values (cells, label names, option names, logins) are sequences of *)
(* one-character strings so that strip(), lower(), split() and float() are *)
(* computed character by character.  Column names and field names are only *)
(* ever compared for equality by the program and are plain strings.        *)
(***************************************************************************)
EXTENDS Integers, Sequences, FiniteSets, TLC

\* Number of data rows of the CSV file read at most.
MaxRows == 2

\* Python's None as a cell value (DictReader's restval for a short row).
\* It is not a sequence of one-character strings, so it equals no text.
None == <<"<None>">>

Range(s) == {s[i] : i \in 1..Len(s)}

----------------------------------------------------------------------------
\* str methods used by the program

IsSpace(c) == c = " "

RECURSIVE LStrip(_)
LStrip(s) == IF s # <<>> /\ IsSpace(Head(s)) THEN LStrip(Tail(s)) ELSE s

RECURSIVE RStrip(_)
RStrip(s) == IF s # <<>> /\ IsSpace(s[Len(s)]) THEN RStrip(SubSeq(s, 1, Len(s) - 1)) ELSE s

\* str.strip()
Strip(s) == RStrip(LStrip(s))

\* str.lstrip("@")
RECURSIVE LStripAt(_)
LStripAt(s) == IF s # <<>> /\ Head(s) = "@" THEN LStripAt(Tail(s)) ELSE s

LowerChar(c) ==
    CASE c = "A" -> "a" [] c = "B" -> "b" [] c = "C" -> "c" [] c = "D" -> "d"
      [] c = "E" -> "e" [] c = "F" -> "f" [] c = "G" -> "g" [] c = "H" -> "h"
      [] c = "I" -> "i" [] c = "J" -> "j" [] c = "K" -> "k" [] c = "L" -> "l"
      [] c = "M" -> "m" [] c = "N" -> "n" [] c = "O" -> "o" [] c = "P" -> "p"
      [] c = "Q" -> "q" [] c = "R" -> "r" [] c = "S" -> "s" [] c = "T" -> "t"
      [] c = "U" -> "u" [] c = "V" -> "v" [] c = "W" -> "w" [] c = "X" -> "x"
      [] c = "Y" -> "y" [] c = "Z" -> "z"
      [] OTHER -> c

\* str.lower()
Lower(s) == [i \in 1..Len(s) |-> LowerChar(s[i])]

\* str.split(","): the pieces between the commas, empty pieces kept
RECURSIVE SplitFrom(_, _, _)
SplitFrom(s, i, cur) ==
    IF i > Len(s) THEN <<cur>>
    ELSE IF s[i] = "," THEN <<cur>> \o SplitFrom(s, i + 1, <<>>)
    ELSE SplitFrom(s, i + 1, Append(cur, s[i]))

Split(s) == SplitFrom(s, 1, <<>>)

\* float(): optional surrounding blanks, optional sign, decimal digits with at
\* most one point and at least one digit.  Exponents, "inf", "nan" and digit
\* underscores do not occur among the cell values of this model.
Digits == {"0", "1", "2", "3", "4", "5", "6", "7", "8", "9"}

DigitVal(c) ==
    CASE c = "0" -> 0 [] c = "1" -> 1 [] c = "2" -> 2 [] c = "3" -> 3 [] c = "4" -> 4
      [] c = "5" -> 5 [] c = "6" -> 6 [] c = "7" -> 7 [] c = "8" -> 8 [] c = "9" -> 9

Unsigned(s) == IF s # <<>> /\ Head(s) \in {"+", "-"} THEN Tail(s) ELSE s

IsFloat(s) ==
    LET u == Unsigned(Strip(s))
    IN  /\ \A i \in 1..Len(u) : u[i] \in Digits \cup {"."}
        /\ Cardinality({i \in 1..Len(u) : u[i] = "."}) <= 1
        /\ \E i \in 1..Len(u) : u[i] \in Digits

RECURSIVE Mantissa(_, _)
Mantissa(u, acc) ==
    IF u = <<>> THEN acc
    ELSE IF Head(u) = "." THEN Mantissa(Tail(u), acc)
    ELSE Mantissa(Tail(u), 10 * acc + DigitVal(Head(u)))

RECURSIVE Normal(_, _)
Normal(m, sc) == IF sc > 0 /\ m % 10 = 0 THEN Normal(m \div 10, sc - 1) ELSE <<m, sc>>

\* The number float(s) denotes, as <<m, sc>> meaning m / 10^sc in lowest form.
FloatVal(s) ==
    LET t  == Strip(s)
        u  == Unsigned(t)
        dp == {i \in 1..Len(u) : u[i] = "."}
        sc == IF dp = {} THEN 0 ELSE Len(u) - (CHOOSE i \in dp : TRUE)
        m  == Mantissa(u, 0)
    IN  Normal(IF t # <<>> /\ Head(t) = "-" THEN 0 - m ELSE m, sc)

----------------------------------------------------------------------------
\* Python truthiness, dict.get and `a or b` on cell values

Truthy(v) == v # None /\ v # <<>>

Get(r, k) == IF k \in DOMAIN r THEN r[k] ELSE None

Or(a, b) == IF Truthy(a) THEN a ELSE b

\* `ids or None`: an empty list is submitted as unset
OrNone(l) == IF l = <<>> THEN None ELSE l

----------------------------------------------------------------------------
\* The remote service, as far as the program can observe it

\* gql(): "ok" returns data["data"]; "err" is the RuntimeError raised for a
\* status other than 200 or for embedded errors; "exc" is an exception of
\* requests.post / r.json(), which is not a RuntimeError.
GqlOutcomes == {"ok", "err", "exc"}

NoOptions == <<>>

NullNode == [isNull |-> TRUE, typename |-> "", id |-> "", name |-> "", dataType |-> "", options |-> NoOptions]

Node(tn, id, name, dt, opts) ==
    [isNull |-> FALSE, typename |-> tn, id |-> id, name |-> name, dataType |-> dt, options |-> opts]

PriorityOptions ==
    << [id |-> "O_low",  name |-> <<"L", "o", "w">>],
       [id |-> "O_med",  name |-> <<"M", "e", "d", "i", "u", "m">>],
       [id |-> "O_high", name |-> <<"H", "i", "g", "h">>] >>

NoBoard == [present |-> FALSE, id |-> "", nodes |-> <<>>]

BoardA ==
    [present |-> TRUE, id |-> "PVT_A", nodes |->
       << Node("ProjectV2Field", "F_title", "Title", "TITLE", NoOptions),
          Node("ProjectV2SingleSelectField", "F_prio", "Priority", "SINGLE_SELECT", PriorityOptions),
          Node("ProjectV2Field", "F_pts", "Points", "NUMBER", NoOptions) >>]

BoardB ==
    [present |-> TRUE, id |-> "PVT_B", nodes |->
       << NullNode,
          Node("ProjectV2Field", "F_old", "Notes", "TEXT", NoOptions),
          Node("ProjectV2Field", "F_anon", "", "TEXT", NoOptions),
          Node("ProjectV2Field", "F_notes", "Notes", "TEXT", NoOptions),
          Node("ProjectV2Field", "F_due", "Due", "DATE", NoOptions),
          Node("ProjectV2IterationField", "F_spr", "Sprint", "ITERATION", NoOptions),
          Node("ProjectV2SingleSelectField", "F_prio0", "Priority", "SINGLE_SELECT", NoOptions),
          Node("ProjectV2Field", "F_pts", "Points", "NUMBER", NoOptions) >>]

\* What a probe can answer: an exception, or data whose owner is null, whose
\* owner has no such project, or whose owner has the project.
ProbeResponses ==
    {[out |-> "err", owner |-> FALSE, proj |-> NoBoard],
     [out |-> "exc", owner |-> FALSE, proj |-> NoBoard],
     [out |-> "ok",  owner |-> FALSE, proj |-> NoBoard],
     [out |-> "ok",  owner |-> TRUE,  proj |-> NoBoard],
     [out |-> "ok",  owner |-> TRUE,  proj |-> BoardA],
     [out |-> "ok",  owner |-> TRUE,  proj |-> BoardB]}

\* (d.get(kind) or {}).get("projectV2")
ProjOf(resp) == IF resp.owner THEN resp.proj ELSE NoBoard

\* Lines 91-102: the by-name dict of the fields; a later node of the same name
\* replaces an earlier one; null and nameless nodes are left out.
FieldOf(node) ==
    [id |-> node.id, name |-> node.name, dataType |-> node.dataType,
     options |-> IF node.typename = "ProjectV2SingleSelectField" THEN node.options ELSE NoOptions]

RECURSIVE FieldByName(_, _)
FieldByName(nodes, acc) ==
    IF nodes = <<>> THEN acc
    ELSE LET node == Head(nodes)
         IN  IF node.isNull \/ node.name = ""
             THEN FieldByName(Tail(nodes), acc)
             ELSE FieldByName(Tail(nodes),
                    [n \in DOMAIN acc \cup {node.name} |->
                        IF n = node.name THEN FieldOf(node) ELSE acc[n]])

NoProject == [found |-> FALSE, id |-> "", fields |-> <<>>, where |-> ""]

Resolved(proj, where) ==
    [found |-> TRUE, id |-> proj.id, fields |-> FieldByName(proj.nodes, <<>>), where |-> where]

\* Labels of the repository and what a label search can return for a query.
LBug == [id |-> "L_bug", name |-> <<"B", "u", "g">>]
LBugfix == [id |-> "L_bugfix", name |-> <<"b", "u", "g", "f", "i", "x">>]

LabelNodeLists == {<<>>, <<LBugfix>>, <<LBugfix, LBug>>}

UserId(lg) == <<"U">> \o lg

----------------------------------------------------------------------------
\* The CSV file: a header and, per row, one cell per header column

HdrA == <<"Title", "Body", "Labels", "Assignees", "Points">>
HdrB == <<"Title", "Priority", "Points", "Extra">>
HdrC == <<"title", "Title", "Notes", "Due", "Sprint", "Priority", "priority">>

Headers == {HdrA, HdrB, HdrC}

Txt_T == <<"T">>
Txt_t == <<"t">>
Txt_b == <<"b">>
Txt_BugUrgent == <<"b", "u", "g", ",", " ", "u", "r", "g", "e", "n", "t">>
Txt_BUGbug == <<"B", "U", "G", ",", ",", "b", "u", "g">>
Txt_AlBo == <<"@", "a", "l", ",", " ", "b", "o", " ">>
Txt_Blank == <<" ">>
Txt_Hi == <<"H", "i">>
Txt_HIGH == <<" ", "H", "I", "G", "H">>
Txt_low == <<"l", "o", "w">>
Txt_abc == <<"a", "b", "c">>
Txt_1p5 == <<"1", ".", "5", "0">>
Txt_m2 == <<"-", "2">>
Txt_n == <<" ", "n", " ">>
Txt_date == <<"2", "0", "2", "4", "-", "0", "1", "-", "3", "1">>
Txt_S == <<"S">>

RowsA ==
    {[Title |-> t, Body |-> b, Labels |-> l, Assignees |-> a, Points |-> p] :
        t \in {<<>>, Txt_T}, b \in {<<>>, Txt_b}, l \in {<<>>, Txt_BugUrgent, Txt_BUGbug},
        a \in {<<>>, Txt_AlBo}, p \in {None, Txt_abc, Txt_1p5}}

RowsB ==
    {[Title |-> t, Priority |-> pr, Points |-> p, Extra |-> Txt_b] :
        t \in {None, Txt_T}, pr \in {Txt_Blank, Txt_Hi, Txt_HIGH, Txt_low},
        p \in {<<>>, Txt_abc, Txt_m2}}

RowsC ==
    {[title |-> t1, Title |-> t2, Notes |-> n, Due |-> d, Sprint |-> s,
      Priority |-> pr, priority |-> Txt_low] :
        t1 \in {<<>>, Txt_t}, t2 \in {<<>>, Txt_T}, n \in {None, Txt_n},
        d \in {<<>>, Txt_date}, s \in {<<>>, Txt_S}, pr \in {<<>>, Txt_Hi}}

RowsOf(h) == IF h = HdrA THEN RowsA ELSE IF h = HdrB THEN RowsB ELSE RowsC

----------------------------------------------------------------------------
\* The program's state

VARIABLES
    pc,             \* position of main()
    token,          \* args.token or GITHUB_TOKEN is set
    draft,          \* args.draft
    repoArg,        \* args.repo is given
    header,         \* the header of the CSV file
    project,        \* result of get_project_and_fields
    repo_id,
    rowIdx,         \* i of enumerate(reader, start=1); 0 before the first row
    row,
    title,
    body,
    labels,
    assignees,
    pendingUsers,   \* logins get_user_ids has still to look up
    assignee_ids,
    todoLabels,     \* names get_label_ids has still to look up
    remaining,
    label_ids,
    issue_id,
    item_id,
    colIdx,         \* position of the loop over row.items()
    failure,        \* why and where the run ended, when it ended abnormally
    \* what the outside observed
    probes,         \* the board probes issued, with their answers
    repoResp,       \* answer to the repository lookup
    userResp,       \* this row: login -> answer
    labelResp,      \* this row: label name -> nodes returned
    calls,          \* this row: remote calls and the pause, in order
    created,        \* this row: items created
    linked,         \* this row: times an item was put on the board
    payload,        \* this row: input of the creating mutation
    updates,        \* this row: the update_field invocations
    stderr,         \* this row: diagnostics written
    rowsFinished,   \* rows skipped for a missing title or finished with the pause
    anyRemote,      \* some remote call was issued
    mutated         \* some item-creating or field-setting mutation was issued

cfgVars == <<token, draft, repoArg, header>>
startVars == <<project, repo_id, probes, repoResp>>
rowVars == <<rowIdx, row, title, body, labels, assignees>>
userVars == <<pendingUsers, assignee_ids, userResp>>
labelVars == <<todoLabels, remaining, label_ids, labelResp>>
itemVars == <<issue_id, item_id, created, linked, payload>>
fieldVars == <<colIdx, updates>>

vars == <<pc, cfgVars, startVars, rowVars, userVars, labelVars, itemVars, fieldVars,
          failure, calls, stderr, rowsFinished, anyRemote, mutated>>

NoFailure == [at |-> "", why |-> ""]

NoPayload == [kind |-> "", title |-> <<>>, body |-> <<>>, labelIds |-> None, assigneeIds |-> None]

NoRow == <<>>

Init ==
    /\ pc = "start"
    /\ token \in BOOLEAN
    /\ draft \in BOOLEAN
    /\ repoArg \in BOOLEAN
    /\ header \in Headers
    /\ project = NoProject
    /\ repo_id = ""
    /\ rowIdx = 0
    /\ row = NoRow
    /\ title = <<>>
    /\ body = <<>>
    /\ labels = <<>>
    /\ assignees = <<>>
    /\ pendingUsers = {}
    /\ assignee_ids = <<>>
    /\ todoLabels = {}
    /\ remaining = {}
    /\ label_ids = <<>>
    /\ issue_id = ""
    /\ item_id = ""
    /\ colIdx = 1
    /\ failure = NoFailure
    /\ probes = <<>>
    /\ repoResp = ""
    /\ userResp = <<>>
    /\ labelResp = <<>>
    /\ calls = <<>>
    /\ created = 0
    /\ linked = 0
    /\ payload = NoPayload
    /\ updates = <<>>
    /\ stderr = <<>>
    /\ rowsFinished = 0
    /\ anyRemote = FALSE
    /\ mutated = FALSE

\* The run ends abnormally: sys.exit(1) or an exception nothing catches.
Abort(at, why) ==
    /\ pc' = "failed"
    /\ failure' = [at |-> at, why |-> why]

\* Why a remote call that did not return data ends the run.
Raised(out) == IF out = "err" THEN "RuntimeError" ELSE "Exception"

----------------------------------------------------------------------------
\* main(), lines 264-267

\* Variant: the credential check is left out.
TokenMissing_Never(tok) == FALSE

TokenMissing(tok) == ~tok

Start ==
    /\ pc = "start"
    /\ IF TokenMissing(token)
       THEN Abort("start", "no_token")
       ELSE pc' = "probe_user" /\ UNCHANGED failure
    /\ UNCHANGED <<cfgVars, startVars, rowVars, userVars, labelVars, itemVars, fieldVars,
                   calls, stderr, rowsFinished, anyRemote, mutated>>

\* get_project_and_fields, lines 69-76: the probe of the user kind.  A
\* RuntimeError of gql is caught and counts as no project; any other exception
\* leaves the function.
UserProbeCatches(out) == out = "err"

\* Variant: the organization kind is probed whatever the first probe gave.
NeedOrgProbe_Always(proj) == TRUE

\* Line 79: `if not proj`
NeedOrgProbe(proj) == ~proj.present

ProbeUser ==
    /\ pc = "probe_user"
    /\ \E resp \in ProbeResponses :
         LET user_proj == IF resp.out = "ok" THEN ProjOf(resp) ELSE NoBoard
         IN  /\ probes' = Append(probes, [kind |-> "user", out |-> resp.out, proj |-> ProjOf(resp)])
             /\ IF resp.out # "ok" /\ ~UserProbeCatches(resp.out)
                THEN Abort("probe_user", Raised(resp.out)) /\ UNCHANGED project
                ELSE IF NeedOrgProbe(user_proj)
                THEN pc' = "probe_org" /\ UNCHANGED <<project, failure>>
                ELSE /\ project' = Resolved(user_proj, "user")
                     /\ pc' = "repo"
                     /\ UNCHANGED failure
    /\ anyRemote' = TRUE
    /\ UNCHANGED <<cfgVars, repo_id, repoResp, rowVars, userVars, labelVars, itemVars,
                   fieldVars, calls, stderr, rowsFinished, mutated>>

\* get_project_and_fields, lines 79-104: the probe of the organization kind.
ProbeOrg ==
    /\ pc = "probe_org"
    /\ \E resp \in ProbeResponses :
         LET proj == ProjOf(resp)
         IN  /\ probes' = Append(probes, [kind |-> "org", out |-> resp.out, proj |-> proj])
             /\ IF resp.out # "ok"
                THEN Abort("probe_org", Raised(resp.out)) /\ UNCHANGED project
                ELSE IF ~proj.present
                THEN Abort("probe_org", "board_not_found") /\ UNCHANGED project
                ELSE /\ project' = Resolved(proj, "org")
                     /\ pc' = "repo"
                     /\ UNCHANGED failure
    /\ anyRemote' = TRUE
    /\ UNCHANGED <<cfgVars, repo_id, repoResp, rowVars, userVars, labelVars, itemVars,
                   fieldVars, calls, stderr, rowsFinished, mutated>>

\* main(), lines 273-278, with get_repo_id (lines 107-118)
RepoResponses == {"found", "null", "err", "exc"}

ResolveRepo ==
    /\ pc = "repo"
    /\ IF draft
       THEN /\ pc' = "read_row"
            /\ UNCHANGED <<repo_id, repoResp, failure, anyRemote>>
       ELSE IF ~repoArg
       THEN /\ Abort("repo", "no_repo_arg")
            /\ UNCHANGED <<repo_id, repoResp, anyRemote>>
       ELSE \E resp \in RepoResponses :
              /\ repoResp' = resp
              /\ anyRemote' = TRUE
              /\ IF resp \in {"err", "exc"}
                 THEN Abort("repo", Raised(resp)) /\ UNCHANGED repo_id
                 ELSE IF resp = "null"
                 THEN Abort("repo", "repo_not_found") /\ UNCHANGED repo_id
                 ELSE repo_id' = "R_1" /\ pc' = "read_row" /\ UNCHANGED failure
    /\ UNCHANGED <<cfgVars, project, probes, rowVars, userVars, labelVars, itemVars,
                   fieldVars, calls, stderr, rowsFinished, mutated>>

----------------------------------------------------------------------------
\* main(), lines 283-296: the next record, its title and its name lists

Min(S) == CHOOSE x \in S : \A y \in S : x <= y

\* Line 284
TitleOf(r) == Or(Get(r, "Title"), Get(r, "title"))

\* Variant: only an absent title counts as missing (`if title is None`).
TitleMissing_OnlyAbsent(r) == Get(r, "Title") = None /\ Get(r, "title") = None

\* Line 285: `if not title`
TitleMissing(r) == ~Truthy(TitleOf(r))

\* Lines 290-291
LabelsOf(r) ==
    LET labels_raw == Or(Or(Get(r, "Labels"), Get(r, "labels")), <<>>)
    IN  IF Truthy(labels_raw)
        THEN [i \in 1..Len(Split(labels_raw)) |-> Strip(Split(labels_raw)[i])]
        ELSE <<>>

\* Lines 293-294
AssigneesOf(r) ==
    LET assignees_raw == Or(Or(Get(r, "Assignees"), Get(r, "assignees")), <<>>)
    IN  IF Truthy(assignees_raw)
        THEN [i \in 1..Len(Split(assignees_raw)) |-> LStripAt(Strip(Split(assignees_raw)[i]))]
        ELSE <<>>

\* Lines 132 and 152: the stripped, non-empty names of a list, as a set
Names(list) == {Strip(x) : x \in Range(list)} \ {<<>>}

\* The loop of line 283 is exhausted: the file has rowIdx rows.
EndOfFile ==
    /\ pc = "read_row"
    /\ pc' = "done"
    /\ UNCHANGED <<cfgVars, startVars, rowVars, userVars, labelVars, itemVars, fieldVars,
                   failure, calls, stderr, rowsFinished, anyRemote, mutated>>

\* Lines 283-296 up to the call of get_user_ids.  The observations of the
\* previous row are cleared; program variables a row assigns before it reads
\* them (ids, lists) are cleared with them.
ReadRow ==
    /\ pc = "read_row"
    /\ rowIdx < MaxRows
    /\ \E r \in RowsOf(header) :
         /\ row' = r
         /\ rowIdx' = rowIdx + 1
         /\ IF TitleMissing(r)
            THEN /\ stderr' = <<[kind |-> "title_missing", what |-> rowIdx + 1]>>
                 /\ rowsFinished' = rowsFinished + 1
                 /\ pc' = "read_row"
                 /\ title' = <<>> /\ body' = <<>> /\ labels' = <<>> /\ assignees' = <<>>
                 /\ pendingUsers' = {}
            ELSE /\ stderr' = <<>>
                 /\ rowsFinished' = rowsFinished
                 /\ pc' = "users"
                 /\ title' = TitleOf(r)
                 /\ body' = Or(Or(Get(r, "Body"), Get(r, "body")), <<>>)
                 /\ labels' = LabelsOf(r)
                 /\ assignees' = AssigneesOf(r)
                 /\ pendingUsers' = Names(AssigneesOf(r))
    /\ assignee_ids' = <<>> /\ userResp' = <<>>
    /\ todoLabels' = {} /\ remaining' = {} /\ label_ids' = <<>> /\ labelResp' = <<>>
    /\ issue_id' = "" /\ item_id' = "" /\ created' = 0 /\ linked' = 0 /\ payload' = NoPayload
    /\ colIdx' = 1 /\ updates' = <<>>
    /\ calls' = <<>>
    /\ UNCHANGED <<cfgVars, startVars, failure, anyRemote, mutated>>

----------------------------------------------------------------------------
\* get_user_ids, lines 145-159: one query per login, in the set's order

UserResponses == {"found", "null", "err", "exc"}

Put(f, k, v) == [x \in DOMAIN f \cup {k} |-> IF x = k THEN v ELSE f[x]]

UserLookup ==
    /\ pc = "users"
    /\ pendingUsers # {}
    /\ \E lg \in pendingUsers, resp \in UserResponses :
         /\ pendingUsers' = pendingUsers \ {lg}
         /\ userResp' = Put(userResp, lg, resp)
         /\ IF resp \in {"err", "exc"}
            THEN Abort("users", Raised(resp)) /\ UNCHANGED <<assignee_ids, stderr>>
            ELSE /\ UNCHANGED <<pc, failure>>
                 /\ IF resp = "found"
                    THEN assignee_ids' = Append(assignee_ids, UserId(lg)) /\ UNCHANGED stderr
                    ELSE /\ stderr' = Append(stderr, [kind |-> "user_missing", what |-> lg])
                         /\ UNCHANGED assignee_ids
    /\ calls' = Append(calls, "user")
    /\ anyRemote' = TRUE
    /\ UNCHANGED <<cfgVars, startVars, rowVars, labelVars, itemVars, fieldVars,
                   rowsFinished, mutated>>

\* Variant: the run mode is ignored and the tracked path always taken.
AfterUsers_AlwaysTracked(d) == "labels"

\* Line 298: the branch on the run mode
AfterUsers(d) == IF d THEN "draft" ELSE "labels"

\* get_user_ids returns; in tracked mode get_label_ids starts (lines 121-132)
UsersDone ==
    /\ pc = "users"
    /\ pendingUsers = {}
    /\ pc' = AfterUsers(draft)
    /\ IF AfterUsers(draft) = "labels"
       THEN todoLabels' = Names(labels) /\ remaining' = Names(labels)
       ELSE UNCHANGED <<todoLabels, remaining>>
    /\ UNCHANGED <<cfgVars, startVars, rowVars, userVars, label_ids, labelResp, itemVars,
                   fieldVars, failure, calls, stderr, rowsFinished, anyRemote, mutated>>

----------------------------------------------------------------------------
\* get_label_ids, lines 134-143: one search per name, exact match in any case

\* Variant: the label names are compared with their case.
LabelMatches_CaseSensitive(x, ln) == x.name = ln

\* Line 137
LabelMatches(x, ln) == Lower(x.name) = Lower(ln)

LabelResponses == {[out |-> "ok", nodes |-> n] : n \in LabelNodeLists}
                    \cup {[out |-> o, nodes |-> <<>>] : o \in {"err", "exc"}}

LabelLookup ==
    /\ pc = "labels"
    /\ todoLabels # {}
    /\ \E ln \in todoLabels, resp \in LabelResponses :
         LET hits == {i \in 1..Len(resp.nodes) : LabelMatches(resp.nodes[i], ln)}
         IN  /\ todoLabels' = todoLabels \ {ln}
             /\ labelResp' = Put(labelResp, ln, resp)
             /\ IF resp.out # "ok"
                THEN Abort("labels", Raised(resp.out)) /\ UNCHANGED <<label_ids, remaining>>
                ELSE /\ UNCHANGED <<pc, failure>>
                     /\ IF hits # {}
                        THEN /\ label_ids' = Append(label_ids, resp.nodes[Min(hits)].id)
                             /\ remaining' = remaining \ {ln}
                        ELSE UNCHANGED <<label_ids, remaining>>
    /\ calls' = Append(calls, "label")
    /\ anyRemote' = TRUE
    /\ UNCHANGED <<cfgVars, startVars, rowVars, userVars, itemVars, fieldVars,
                   stderr, rowsFinished, mutated>>

\* Lines 141-143: the names left over are reported, the ids returned
LabelsDone ==
    /\ pc = "labels"
    /\ todoLabels = {}
    /\ stderr' = IF remaining # {}
                 THEN Append(stderr, [kind |-> "labels_missing", what |-> remaining])
                 ELSE stderr
    /\ pc' = "create_issue"
    /\ UNCHANGED <<cfgVars, startVars, rowVars, userVars, labelVars, itemVars, fieldVars,
                   failure, calls, rowsFinished, anyRemote, mutated>>

----------------------------------------------------------------------------
\* Item creation

\* create_issue, lines 161-179
CreateIssue ==
    /\ pc = "create_issue"
    /\ \E out \in GqlOutcomes :
         IF out = "ok"
         THEN /\ issue_id' = "I_1"
              /\ created' = created + 1
              /\ payload' = [kind |-> "issue", title |-> title, body |-> Or(body, <<>>),
                             labelIds |-> OrNone(label_ids),
                             assigneeIds |-> OrNone(assignee_ids)]
              /\ pc' = "link"
              /\ UNCHANGED failure
         ELSE Abort("create_issue", Raised(out)) /\ UNCHANGED <<issue_id, created, payload>>
    /\ calls' = Append(calls, "issue")
    /\ anyRemote' = TRUE
    /\ mutated' = TRUE
    /\ UNCHANGED <<cfgVars, startVars, rowVars, userVars, labelVars, item_id, linked,
                   fieldVars, stderr, rowsFinished>>

\* add_item_to_project, lines 181-190
AddItemToProject ==
    /\ pc = "link"
    /\ \E out \in GqlOutcomes :
         IF out = "ok"
         THEN /\ item_id' = "PVTI_1"
              /\ linked' = linked + 1
              /\ pc' = "fields"
              /\ UNCHANGED failure
         ELSE Abort("link", Raised(out)) /\ UNCHANGED <<item_id, linked>>
    /\ calls' = Append(calls, "link")
    /\ anyRemote' = TRUE
    /\ UNCHANGED <<cfgVars, startVars, rowVars, userVars, labelVars, issue_id, created,
                   payload, fieldVars, stderr, rowsFinished, mutated>>

\* create_draft_issue_and_item, lines 234-249: the draft is created on the board
CreateDraft ==
    /\ pc = "draft"
    /\ \E out \in GqlOutcomes :
         IF out = "ok"
         THEN /\ item_id' = "PVTI_1"
              /\ created' = created + 1
              /\ linked' = linked + 1
              /\ payload' = [kind |-> "draft", title |-> title, body |-> Or(body, <<>>),
                             labelIds |-> None,
                             assigneeIds |-> OrNone(assignee_ids)]
              /\ pc' = "fields"
              /\ UNCHANGED failure
         ELSE Abort("draft", Raised(out)) /\ UNCHANGED <<item_id, created, linked, payload>>
    /\ calls' = Append(calls, "draft")
    /\ anyRemote' = TRUE
    /\ mutated' = TRUE
    /\ UNCHANGED <<cfgVars, startVars, rowVars, userVars, labelVars, issue_id,
                   fieldVars, stderr, rowsFinished>>

----------------------------------------------------------------------------
\* update_field, lines 192-232: the payload for a declared kind and a raw value

NoVal == [kind |-> "none", v |-> <<>>]

Send(kind, v) == [send |-> TRUE, val |-> [kind |-> kind, v |-> v], warn |-> FALSE, info |-> FALSE]

SkipWarn == [send |-> FALSE, val |-> NoVal, warn |-> TRUE, info |-> FALSE]

SkipInfo == [send |-> FALSE, val |-> NoVal, warn |-> FALSE, info |-> TRUE]

\* Variant: a value that does not parse is submitted as zero instead of skipped.
CoerceNumber_ZeroOnError(value) ==
    Send("number", IF IsFloat(value) THEN FloatVal(value) ELSE <<0, 0>>)

\* Lines 198-205
CoerceNumber(value) ==
    IF IsFloat(value) THEN Send("number", FloatVal(value)) ELSE SkipWarn

\* Variant: the option names are compared with their case.
OptionMatches_CaseSensitive(o, value) == o.name = value

\* Line 213: the comparison of an option's name with the value
OptionMatches(o, value) == Lower(o.name) = Lower(value)

\* Lines 209-217: `next(...)` takes the first option that matches
CoerceSingleSelect(value, options) ==
    LET hits == {i \in 1..Len(options) : OptionMatches(options[i], value)}
    IN  IF options = <<>> THEN SkipWarn
        ELSE IF hits = {} THEN SkipWarn
        ELSE Send("singleSelectOptionId", options[Min(hits)].id)

Coerce(data_type, value, options) ==
    CASE data_type = "TEXT" -> Send("text", value)
      [] data_type = "NUMBER" -> CoerceNumber(value)
      [] data_type = "DATE" -> Send("date", value)
      [] data_type = "SINGLE_SELECT" -> CoerceSingleSelect(value, options)
      [] OTHER -> SkipInfo

----------------------------------------------------------------------------
\* main(), lines 310-327: the loop over the columns, then the pause

\* Variant: the capitalized Title is not in the reserved set.
ReservedNames_NoTitle == {"title", "Body", "body", "Labels", "labels", "Assignees", "assignees"}

\* Line 311
ReservedNames == {"Title", "title", "Body", "body", "Labels", "labels", "Assignees", "assignees"}

\* Line 313; str(col_val).strip()
IsBlank(v) == v = None \/ Strip(v) = <<>>

\* Lines 311-318: the column leads to a call of update_field
Eligible(col, v, fields) ==
    /\ col \notin ReservedNames
    /\ ~IsBlank(v)
    /\ col \in DOMAIN fields

\* Variant: `except RuntimeError`, which lets other exceptions through.
FieldCatches_OnlyRuntimeError(out) == out = "err"

\* Line 324: `except Exception` catches whatever the mutation call raises
FieldCatches(out) == out \in {"err", "exc"}

\* One iteration of the loop of line 310.  For a column that is not skipped,
\* update_field runs: it returns early, or issues the mutation, whose failure
\* the except clause of line 324 reports.
FieldStep ==
    /\ pc = "fields"
    /\ colIdx <= Len(header)
    /\ colIdx' = colIdx + 1
    /\ LET col == header[colIdx]
           v   == row[col]
       IN  IF ~Eligible(col, v, project.fields)
           THEN UNCHANGED <<pc, failure, updates, calls, stderr, anyRemote, mutated>>
           ELSE LET field   == project.fields[col]
                    \* lines 319-321; None serves update_field like an empty list
                    options == IF field.dataType = "SINGLE_SELECT" THEN field.options ELSE NoOptions
                    value   == Strip(v)
                    c       == Coerce(field.dataType, value, options)
                    u       == [col |-> col, dataType |-> field.dataType, fieldId |-> field.id,
                                value |-> value, sent |-> c.send, val |-> c.val,
                                warn |-> c.warn, info |-> c.info, out |-> "none"]
                IN  IF ~c.send
                    THEN /\ updates' = Append(updates, u)
                         /\ stderr' = Append(stderr,
                               [kind |-> IF c.warn THEN "field_warning" ELSE "field_info", what |-> col])
                         /\ UNCHANGED <<pc, failure, calls, anyRemote, mutated>>
                    ELSE \E out \in GqlOutcomes :
                           /\ updates' = Append(updates, [u EXCEPT !.out = out])
                           /\ calls' = Append(calls, "update")
                           /\ anyRemote' = TRUE
                           /\ mutated' = TRUE
                           /\ IF out = "ok"
                              THEN UNCHANGED <<pc, failure, stderr>>
                              ELSE IF FieldCatches(out)
                              THEN /\ stderr' = Append(stderr, [kind |-> "field_error", what |-> col])
                                   /\ UNCHANGED <<pc, failure>>
                              ELSE Abort("fields", Raised(out)) /\ UNCHANGED stderr
    /\ UNCHANGED <<cfgVars, startVars, rowVars, userVars, labelVars, itemVars, rowsFinished>>

\* Line 327: time.sleep after the last column
Sleep ==
    /\ pc = "fields"
    /\ colIdx > Len(header)
    /\ calls' = Append(calls, "sleep")
    /\ rowsFinished' = rowsFinished + 1
    /\ pc' = "read_row"
    /\ UNCHANGED <<cfgVars, startVars, rowVars, userVars, labelVars, itemVars, fieldVars,
                   failure, stderr, anyRemote, mutated>>

Next ==
    \/ Start
    \/ ProbeUser
    \/ ProbeOrg
    \/ ResolveRepo
    \/ EndOfFile
    \/ ReadRow
    \/ UserLookup
    \/ UsersDone
    \/ LabelLookup
    \/ LabelsDone
    \/ CreateIssue
    \/ AddItemToProject
    \/ CreateDraft
    \/ FieldStep
    \/ Sleep

Spec == Init /\ [][Next]_vars

----------------------------------------------------------------------------
\* Properties

Count(seq, x) == Cardinality({i \in 1..Len(seq) : seq[i] = x})

Yielded(i) == probes[i].out = "ok" /\ probes[i].proj.present

HasDiag(kind, what) == \E i \in 1..Len(stderr) : stderr[i].kind = kind /\ stderr[i].what = what

\* C1: once the linking step of a row has been taken, the item created for the
\* row is on the board exactly once, whatever the remote calls answered.
C1_LinkedExactlyOnce ==
    /\ linked <= 1
    /\ (created >= 1 /\ pc # "link") => linked = 1

\* C2: no failure of a field update ends the run; whatever the earlier columns
\* did, the update_field invocations of a row are those of all its eligible
\* columns so far, in order; the pause comes after the last column and the
\* driver then goes on to the next record.
C2_FieldFailureIsolated ==
    /\ failure.at # "fields"
    /\ pc = "fields" =>
          /\ colIdx \in 1..(Len(header) + 1)
          /\ failure = NoFailure
    /\ pc \in {"fields", "read_row", "done"} /\ created = 1 =>
          [i \in 1..Len(updates) |-> updates[i].col]
             = SelectSeq(SubSeq(header, 1, colIdx - 1),
                         LAMBDA c : /\ c \notin {"Title", "title", "Body", "body", "Labels",
                                                 "labels", "Assignees", "assignees"}
                                    /\ row[c] # None /\ Strip(row[c]) # <<>>
                                    /\ c \in DOMAIN project.fields)
    /\ Count(calls, "sleep") = 1 => colIdx = Len(header) + 1 /\ pc \in {"read_row", "done"}
    /\ pc \in {"read_row", "done"} /\ created = 1 => Count(calls, "sleep") = 1

\* A remote failure on one column, a later column of the same row updated, the
\* pause taken.
C2_Witness ==
    /\ Count(calls, "sleep") = 1
    /\ \E i, j \in 1..Len(updates) :
          i < j /\ updates[i].out \in {"err", "exc"} /\ updates[j].out = "ok"

\* C3: update_field is invoked, and a mutation issued, for a column only if its
\* name is not reserved, its value is not blank and its name is a field of the
\* board; no column is handled twice.
C3_UpdateOnlyEligible ==
    /\ \A i \in 1..Len(updates) :
          LET c == updates[i].col
          IN  /\ c \notin {"Title", "title", "Body", "body", "Labels", "labels",
                           "Assignees", "assignees"}
              /\ row[c] # None
              /\ Strip(row[c]) # <<>>
              /\ c \in DOMAIN project.fields
              /\ project.fields[c].name = c
              /\ updates[i].fieldId = project.fields[c].id
              /\ updates[i].value = Strip(row[c])
    /\ \A i, j \in 1..Len(updates) : updates[i].col = updates[j].col => i = j
    /\ Count(calls, "update") = Cardinality({i \in 1..Len(updates) : updates[i].sent})

\* The board has a field named Title, the row has a Title, a blank cell and a
\* column the board does not know; all columns were passed and a field was set.
C3_Witness ==
    /\ header = HdrB
    /\ rowIdx >= 1
    /\ pc = "read_row"
    /\ "Title" \in DOMAIN project.fields
    /\ row["Priority"] = Txt_Blank
    /\ Len(updates) = 1
    /\ updates[1].col = "Points"
    /\ updates[1].out = "ok"

\* C4: the user kind is probed first, the organization kind only when the
\* first probe gave no board; the board returned is that of the first probe
\* that gave one; the resolution fails iff no probe gave a board, and a missing
\* board is reported only after both probes.
C4_ProbeOrder ==
    /\ Len(probes) <= 2
    /\ Len(probes) >= 1 => probes[1].kind = "user"
    /\ Len(probes) = 2 => probes[2].kind = "org" /\ ~Yielded(1)
    /\ project.found <=> \E i \in 1..Len(probes) : Yielded(i)
    /\ project.found =>
          LET i == Len(probes)
          IN  /\ Yielded(i)
              /\ project.id = probes[i].proj.id
              /\ project.where = probes[i].kind
              /\ DOMAIN project.fields =
                    {probes[i].proj.nodes[k].name : k \in 1..Len(probes[i].proj.nodes)} \ {""}
    /\ pc \notin {"start", "probe_user", "probe_org", "failed"} => project.found
    /\ pc = "failed" /\ failure.at \in {"probe_user", "probe_org"} => ~project.found
    /\ failure.why = "board_not_found" => Len(probes) = 2

\* The owner is an organization: the first probe gave nothing, the second the board.
C4_Witness ==
    /\ project.found
    /\ project.where = "org"
    /\ Len(probes) = 2
    /\ probes[1].out = "ok"

\* What the lookups of the current row answered
FoundUsers == {lg \in DOMAIN userResp : userResp[lg] = "found"}

MissedUsers == {lg \in DOMAIN userResp : userResp[lg] = "null"}

Answered == {ln \in DOMAIN labelResp : labelResp[ln].out = "ok"}

SameIgnoringCase(a, b) == Lower(a) = Lower(b)

MatchedIds(ln) ==
    {n.id : n \in {x \in Range(labelResp[ln].nodes) : SameIgnoringCase(x.name, ln)}}

Ids(l) == IF l = None THEN {} ELSE Range(l)

\* C5: the user resolver returns exactly the ids of the logins found and the
\* label resolver exactly the ids of the names with a case-insensitive exact
\* match among the candidates; every other name is reported; the item is
\* created with just these ids; only a failed remote call, never a name without
\* a match, ends the run during the lookups.
C5_LookupsDegrade ==
    /\ Range(assignee_ids) = {UserId(lg) : lg \in FoundUsers}
    /\ Range(label_ids) = UNION {MatchedIds(ln) : ln \in Answered}
    /\ \A lg \in MissedUsers : HasDiag("user_missing", lg)
    /\ DOMAIN userResp \subseteq Names(assignees)
    /\ DOMAIN labelResp \subseteq Names(labels)
    /\ pc \in {"labels", "draft", "create_issue", "link", "fields"} =>
          DOMAIN userResp = Names(assignees)
    /\ pc \in {"create_issue", "link", "fields"} /\ ~draft =>
          /\ Answered = Names(labels)
          /\ LET missing == {ln \in Answered : MatchedIds(ln) = {}}
             IN  /\ remaining = missing
                 /\ missing # {} => HasDiag("labels_missing", missing)
    /\ created = 1 =>
          /\ Ids(payload.assigneeIds) = {UserId(lg) : lg \in FoundUsers}
          /\ Ids(payload.labelIds) =
                IF payload.kind = "issue" THEN UNION {MatchedIds(ln) : ln \in Answered} ELSE {}
    /\ pc = "failed" /\ failure.at = "users" =>
          \E lg \in DOMAIN userResp : userResp[lg] \in {"err", "exc"}
    /\ pc = "failed" /\ failure.at = "labels" =>
          \E ln \in DOMAIN labelResp : labelResp[ln].out \in {"err", "exc"}

\* Labels "bug, urgent" with only Bug in the repository, one login unknown: the
\* issue is created with the one label and the one assignee, both misses reported.
C5_Witness ==
    /\ created = 1
    /\ payload.kind = "issue"
    /\ payload.labelIds = <<"L_bug">>
    /\ Len(payload.assigneeIds) = 1
    /\ payload.assigneeIds # None
    /\ MissedUsers # {}
    /\ HasDiag("labels_missing", {<<"u", "r", "g", "e", "n", "t">>})

IsSingleSelect(u) == u.dataType = "SINGLE_SELECT"

\* C6: for a single-choice field, a value equal to an option's name in any
\* casing leads to exactly one mutation with that option's id; otherwise (no
\* such option, or no options) a warning, no mutation and no exception.
C6_SingleSelect ==
    /\ \A i \in 1..Len(updates) : IsSingleSelect(updates[i]) =>
          LET u == updates[i]
              opts == project.fields[u.col].options
              same == {o \in Range(opts) : SameIgnoringCase(o.name, u.value)}
          IN  IF same # {}
              THEN /\ u.sent
                   /\ u.out # "none"
                   /\ u.val.kind = "singleSelectOptionId"
                   /\ u.val.v \in {o.id : o \in same}
                   /\ ~u.warn
              ELSE /\ ~u.sent
                   /\ u.out = "none"
                   /\ u.warn
                   /\ HasDiag("field_warning", u.col)
    /\ Count(calls, "update") = Cardinality({i \in 1..Len(updates) : updates[i].sent})
    /\ failure.at # "fields"

\* The value " HIGH" of the cell selects the option High.
C6_Witness ==
    \E i \in 1..Len(updates) :
        /\ IsSingleSelect(updates[i])
        /\ updates[i].value = <<"H", "I", "G", "H">>
        /\ updates[i].out = "ok"
        /\ updates[i].val.v = "O_high"

IsNumber(u) == u.dataType = "NUMBER"

\* C7: for a numeric field, a value that parses as a number leads to exactly one
\* mutation carrying that number; a value that does not leads to a warning, no
\* mutation and no exception.
C7_Number ==
    /\ \A i \in 1..Len(updates) : IsNumber(updates[i]) =>
          LET u == updates[i]
          IN  IF IsFloat(u.value)
              THEN /\ u.sent
                   /\ u.out # "none"
                   /\ u.val.kind = "number"
                   /\ u.val.v = FloatVal(u.value)
                   /\ ~u.warn
              ELSE /\ ~u.sent
                   /\ u.out = "none"
                   /\ u.warn
                   /\ HasDiag("field_warning", u.col)
    /\ Count(calls, "update") = Cardinality({i \in 1..Len(updates) : updates[i].sent})
    /\ failure.at # "fields"

\* "1.50" is submitted as the number 1.5.
C7_Witness ==
    \E i \in 1..Len(updates) :
        /\ IsNumber(updates[i])
        /\ updates[i].value = Txt_1p5
        /\ updates[i].out = "ok"
        /\ updates[i].val = [kind |-> "number", v |-> <<15, 1>>]

Empty(v) == v = None \/ v = <<>>

NoTitle(r) == Empty(Get(r, "Title")) /\ Empty(Get(r, "title"))

\* C8: for a row without a title under both spellings nothing is looked up,
\* created, linked or updated; the row is reported and the driver is back at
\* reading the next record.
C8_TitleMissingSkipped ==
    rowIdx >= 1 /\ NoTitle(row) =>
        /\ calls = <<>>
        /\ DOMAIN userResp = {}
        /\ DOMAIN labelResp = {}
        /\ created = 0
        /\ linked = 0
        /\ updates = <<>>
        /\ stderr = <<[kind |-> "title_missing", what |-> rowIdx]>>
        /\ pc \in {"read_row", "done"}
        /\ rowsFinished = rowIdx

\* The second row has an empty Title and an empty title; the first was imported.
C8_Witness ==
    /\ rowIdx = 2
    /\ header = HdrC
    /\ NoTitle(row)
    /\ pc = "read_row"
    /\ mutated

\* C9: without a credential no remote call is made; a board absent under both
\* kinds ends the run after the two probes; in tracked mode a missing
\* repository ends the run before any row is read; in all three cases no
\* item-creating or field-setting mutation is ever issued.
C9_StartupFailures ==
    /\ ~token => ~anyRemote /\ ~mutated /\ rowIdx = 0 /\ pc \in {"start", "failed"}
    /\ failure.why = "no_token" => pc = "failed" /\ ~anyRemote
    /\ Len(probes) = 2 /\ ~Yielded(2) =>
          pc = "failed" /\ rowIdx = 0 /\ ~mutated /\ repoResp = ""
    /\ failure.why = "board_not_found" =>
          Len(probes) = 2 /\ ~Yielded(1) /\ ~Yielded(2)
    /\ ~draft /\ (~repoArg \/ repoResp = "null") => rowIdx = 0 /\ ~mutated /\ calls = <<>>
    /\ ~draft /\ (~repoArg \/ repoResp = "null") /\ pc \notin {"start", "probe_user", "probe_org", "repo"} =>
          pc = "failed"

\* Tracked mode, the board found, the repository not found.
C9_Witness ==
    /\ pc = "failed"
    /\ failure.why = "repo_not_found"
    /\ project.found

Rank(k) ==
    CASE k = "user" -> 1 [] k = "label" -> 2 [] k = "issue" -> 3 [] k = "draft" -> 3
      [] k = "link" -> 4 [] k = "update" -> 5 [] k = "sleep" -> 6

\* C10: a row issues calls only when every earlier row is finished (skipped for
\* its missing title, or paused); the calls of a row come in the order user
\* lookups, then label lookups, issue creation and board link (tracked mode) or
\* the draft creation alone (draft mode), then field updates, then one pause.
C10_RowOrder ==
    /\ rowsFinished \in {rowIdx - 1, rowIdx} \cap 0..MaxRows
    /\ pc \in {"users", "labels", "create_issue", "link", "draft", "fields"} =>
          rowsFinished = rowIdx - 1
    /\ calls # <<>> /\ Count(calls, "sleep") = 0 => rowsFinished = rowIdx - 1
    /\ \A i, j \in 1..Len(calls) : i < j => Rank(calls[i]) <= Rank(calls[j])
    /\ \A k \in {"issue", "link", "draft", "sleep"} : Count(calls, k) <= 1
    /\ draft => \A i \in 1..Len(calls) : calls[i] \notin {"label", "issue", "link"}
    /\ ~draft => Count(calls, "draft") = 0
    /\ Count(calls, "link") = 1 => Count(calls, "issue") = 1
    /\ Count(calls, "update") >= 1 \/ Count(calls, "sleep") = 1 =>
          Count(calls, "link") + Count(calls, "draft") = 1
    /\ rowIdx >= 1 /\ ~NoTitle(row) /\ pc \in {"read_row", "done"} =>
          /\ Count(calls, "sleep") = 1
          /\ calls[Len(calls)] = "sleep"
          /\ rowsFinished = rowIdx

\* The second row, tracked mode: two user lookups, two label lookups, the
\* issue, the link, a field update and the pause.
C10_Witness ==
    /\ rowIdx = 2
    /\ calls = <<"user", "user", "label", "label", "issue", "link", "update", "sleep">>

====
